---------------------------- MODULE Spec2Model ----------------------------
(***************************************************************************)
(* Model of next-auth-cli: the provider registry (providers.ts), the       *)
(* structure detector (utils/detect.ts), the file generator                *)
(* (utils/generator.ts) and the orchestrator setupNextAuth (index.ts).     *)
(*                                                                         *)
(* A path is the sequence of its components; <<>> is the filesystem root.  *)
(* The filesystem is the pair (files, dirs): files maps each existing file *)
(* path to its content, dirs is the set of existing directories.  A file   *)
(* content is a record whose "kind" names the template and whose other     *)
(* fields hold the parts of the template that depend on the selection.     *)
(***************************************************************************)
EXTENDS Integers, Sequences, FiniteSets, TLC

VARIABLES
    files,          \* existing file path -> content
    dirs,           \* existing directories
    unwritable,     \* file paths at which fs.writeFile rejects (EACCES, ...)
    processCwd,     \* process.cwd()
    pc,             \* position of the orchestrator
    providerIds,    \* argument providerIds of the current run
    providers,      \* result of getProviderConfigs(providerIds), line 29
    structure,      \* result of detectProjectStructure(cwd), line 39
    install,        \* outcome of the dependency-install step of the run
    results,        \* the run's results array
    exitCode,       \* -1 while the process has not ended
    stderr,         \* the gate's error message, "" when none
    prevResults,    \* results of the previous run that reached the summary
    prevFiles,      \* files as that previous run left them
    prevProviderIds,\* providerIds of that previous run
    call,           \* outcome of the last direct call of a pure function
    runs,           \* two runs of the tool at once: where each is in its loop
    userFiles       \* paths of the files the user created during those runs

vars == <<files, dirs, unwritable, processCwd, pc, providerIds, providers,
          structure, install, results, exitCode, stderr, prevResults,
          prevFiles, prevProviderIds, call, runs, userFiles>>

---------------------------------------------------------------------------
(* Bounds of the model.                                                    *)

\* longest provider selection passed to the orchestrator
MaxSelect == 1
\* longest id list passed to a direct call of a pure function
MaxIds == 3
\* most artifacts that are pre-existing or unwritable in the initial filesystem
MaxOdd == 1

\* most packages in each of dependencies and devDependencies of a manifest
MaxDeps == 1

\* most lock files in the directories from the root down to the target
MaxLocks == 2

\* most comma-separated tokens in the value of --providers
MaxArgs == 2
MaxUserFiles == 1

---------------------------------------------------------------------------
(* Paths: path.join and path.dirname on absolute POSIX paths.              *)

Join(p, q) == p \o q

Dirname(p) == IF p = <<>> THEN <<>> ELSE SubSeq(p, 1, Len(p) - 1)

\* p and all its ancestors: the directories fs.ensureDir(p) makes exist
Ancestors(p) == {SubSeq(p, 1, k) : k \in 0..Len(p)}

\* the target root given to the orchestrator, and another working directory
Cwd == <<"home", "proj">>

Elsewhere == <<"home", "other">>
ExistsSync(fl, ds, p) == p \in DOMAIN fl \/ p \in ds

---------------------------------------------------------------------------
(* providers.ts: the registry.  JavaScript's undefined and null, and the   *)
(* text "undefined" that a template literal makes of undefined, are the    *)
(* strings below.                                                          *)

Undefined == "undefined"
Null == "null"

RegistryIds == {"google", "github", "credentials"}

\* a key PROVIDERS inherits from Object.prototype: `id in PROVIDERS` is true
\* for it and PROVIDERS[id] is a function (truthy), here Object itself
InheritedIds == {"constructor"}

\* ids that are neither own nor inherited keys of PROVIDERS
ForeignIds == {"unknown"}

Ids == RegistryIds \cup InheritedIds \cup ForeignIds

\* a registry whose credentials entry is given a callback path
PROVIDERSCallbackForAll ==
    [google |->
        [id |-> "google", name |-> "Google", importName |-> "Google",
         importPath |-> "next-auth/providers/google",
         envVars |-> << [key |-> "AUTH_GOOGLE_ID", placeholder |-> "your-google-client-id"],
                        [key |-> "AUTH_GOOGLE_SECRET", placeholder |-> "your-google-client-secret"] >>,
         hasEnvVars |-> TRUE, hasSetupInstructions |-> TRUE,
         configSnippet |-> "Google({...})",
         callbackPath |-> "/api/auth/callback/google"],
     github |->
        [id |-> "github", name |-> "GitHub", importName |-> "GitHub",
         importPath |-> "next-auth/providers/github",
         envVars |-> << [key |-> "AUTH_GITHUB_ID", placeholder |-> "your-github-client-id"],
                        [key |-> "AUTH_GITHUB_SECRET", placeholder |-> "your-github-client-secret"] >>,
         hasEnvVars |-> TRUE, hasSetupInstructions |-> TRUE,
         configSnippet |-> "GitHub({...})",
         callbackPath |-> "/api/auth/callback/github"],
     credentials |->
        [id |-> "credentials", name |-> "Credentials (Email/Password)",
         importName |-> "Credentials",
         importPath |-> "next-auth/providers/credentials",
         envVars |-> << >>,
         hasEnvVars |-> TRUE, hasSetupInstructions |-> TRUE,
         configSnippet |-> "Credentials({...})",
         callbackPath |-> "/api/auth/callback/credentials"]]

PROVIDERS ==
    [google |->
        [id |-> "google", name |-> "Google", importName |-> "Google",
         importPath |-> "next-auth/providers/google",
         envVars |-> << [key |-> "AUTH_GOOGLE_ID", placeholder |-> "your-google-client-id"],
                        [key |-> "AUTH_GOOGLE_SECRET", placeholder |-> "your-google-client-secret"] >>,
         hasEnvVars |-> TRUE, hasSetupInstructions |-> TRUE,
         configSnippet |-> "Google({...})",
         callbackPath |-> "/api/auth/callback/google"],
     github |->
        [id |-> "github", name |-> "GitHub", importName |-> "GitHub",
         importPath |-> "next-auth/providers/github",
         envVars |-> << [key |-> "AUTH_GITHUB_ID", placeholder |-> "your-github-client-id"],
                        [key |-> "AUTH_GITHUB_SECRET", placeholder |-> "your-github-client-secret"] >>,
         hasEnvVars |-> TRUE, hasSetupInstructions |-> TRUE,
         configSnippet |-> "GitHub({...})",
         callbackPath |-> "/api/auth/callback/github"],
     credentials |->
        [id |-> "credentials", name |-> "Credentials (Email/Password)",
         importName |-> "Credentials",
         importPath |-> "next-auth/providers/credentials",
         envVars |-> << >>,
         hasEnvVars |-> TRUE, hasSetupInstructions |-> TRUE,
         configSnippet |-> "Credentials({...})",
         callbackPath |-> Null]]

\* Object.prototype.constructor, the function Object, read as a ProviderConfig:
\* its name is "Object" and every other field is undefined (hasEnvVars and
\* hasSetupInstructions are FALSE: the field is undefined, and reading its
\* length throws a TypeError)
ObjectFunction ==
    [id |-> Undefined, name |-> "Object", importName |-> Undefined,
     importPath |-> Undefined, envVars |-> << >>, hasEnvVars |-> FALSE,
     hasSetupInstructions |-> FALSE,
     configSnippet |-> Undefined, callbackPath |-> Undefined]

\* the expression `id in PROVIDERS`
InPROVIDERS(id) == id \in DOMAIN PROVIDERS \/ id \in InheritedIds

\* the value undefined where a ProviderConfig is expected
UndefinedConfig ==
    [id |-> Undefined, name |-> Undefined, importName |-> Undefined,
     importPath |-> Undefined, envVars |-> << >>, hasEnvVars |-> FALSE,
     hasSetupInstructions |-> FALSE,
     configSnippet |-> Undefined, callbackPath |-> Undefined]

\* the expression PROVIDERS[id]; undefined when the key is not found
Lookup(id) ==
    IF id \in DOMAIN PROVIDERS THEN PROVIDERS[id]
    ELSE IF id \in InheritedIds THEN ObjectFunction
    ELSE UndefinedConfig

getAllProviders == << PROVIDERS.google, PROVIDERS.github, PROVIDERS.credentials >>

\* least index of ids that ids.map's callback throws at, 0 when none
FirstUnknown(ids) ==
    LET bad == {i \in 1..Len(ids) : Lookup(ids[i]) = UndefinedConfig}
    IN  IF bad = {} THEN 0 ELSE CHOOSE i \in bad : \A j \in bad : i <= j

getProviderConfigsOfAll(ids) ==
    [threw |-> FALSE, error |-> "",
     value |-> << Lookup("google"), Lookup("github"), Lookup("credentials") >>]

getProviderConfigs(ids) ==
    IF FirstUnknown(ids) # 0
    THEN [threw |-> TRUE,
          error |-> "Unknown provider: " \o ids[FirstUnknown(ids)],
          value |-> << >>]
    ELSE [threw |-> FALSE, error |-> "",
          value |-> [i \in 1..Len(ids) |-> Lookup(ids[i])]]

---------------------------------------------------------------------------
(* utils/detect.ts                                                         *)

hasAppDirAtEitherPlace(fl, ds, cwd, hasSrcDir) ==
    \/ ExistsSync(fl, ds, Join(cwd, <<"src", "app">>))
    \/ ExistsSync(fl, ds, Join(cwd, <<"app">>))

\* lines 20-22
hasAppDirIn(fl, ds, cwd, hasSrcDir) ==
    IF hasSrcDir
    THEN ExistsSync(fl, ds, Join(cwd, <<"src", "app">>))
    ELSE ExistsSync(fl, ds, Join(cwd, <<"app">>))

componentsPathAtRoot(cwd, hasSrcDir) == Join(cwd, <<"components">>)

\* lines 26-28
componentsPathIn(cwd, hasSrcDir) ==
    IF hasSrcDir
    THEN Join(cwd, <<"src", "components">>)
    ELSE Join(cwd, <<"components">>)

middlewarePathAtRoot(cwd, hasSrcDir) == Join(cwd, <<"middleware.ts">>)

\* lines 29-31
middlewarePathIn(cwd, hasSrcDir) ==
    IF hasSrcDir
    THEN Join(cwd, <<"src", "middleware.ts">>)
    ELSE Join(cwd, <<"middleware.ts">>)

detectProjectStructure(fl, ds, cwd) ==
    LET hasSrcDir == ExistsSync(fl, ds, Join(cwd, <<"src">>))
        basePath  == IF hasSrcDir THEN Join(cwd, <<"src">>) ELSE cwd
    IN  [hasSrcDir |-> hasSrcDir,
         hasAppDir |-> hasAppDirIn(fl, ds, cwd, hasSrcDir),
         basePath |-> basePath,
         appPath |-> Join(basePath, <<"app">>),
         componentsPath |-> componentsPathIn(cwd, hasSrcDir),
         middlewarePath |-> middlewarePathIn(cwd, hasSrcDir)]

\* A package.json is a record: wellFormed is FALSE when JSON.parse throws;
\* dependencies and devDependencies are the sets of package names they map
\* (to a version, a non-empty string).  When package.json is a directory
\* readFileSync throws, inside the try.
PackageJsonPath(cwd) == Join(cwd, <<"package.json">>)

isNextProjectDependenciesOnly(fl, ds, cwd) ==
    IF PackageJsonPath(cwd) \notin DOMAIN fl THEN FALSE
    ELSE fl[PackageJsonPath(cwd)].wellFormed
         /\ "next" \in fl[PackageJsonPath(cwd)].dependencies

isNextProject(fl, ds, cwd) ==
    IF ~ExistsSync(fl, ds, PackageJsonPath(cwd)) THEN FALSE
    ELSE IF PackageJsonPath(cwd) \notin DOMAIN fl THEN FALSE
    ELSE LET packageJson == fl[PackageJsonPath(cwd)]
         IN  IF ~packageJson.wellFormed THEN FALSE
             ELSE "next" \in packageJson.dependencies
                  \/ "next" \in packageJson.devDependencies

hasNextAuth(fl, ds, cwd) ==
    IF ~ExistsSync(fl, ds, PackageJsonPath(cwd)) THEN FALSE
    ELSE IF PackageJsonPath(cwd) \notin DOMAIN fl THEN FALSE
    ELSE LET packageJson == fl[PackageJsonPath(cwd)]
         IN  IF ~packageJson.wellFormed THEN FALSE
             ELSE "next-auth" \in packageJson.dependencies
                  \/ "next-auth" \in packageJson.devDependencies

\* the loop of getPackageManager from directory dir on
RECURSIVE PackageManagerFrom(_, _, _)
PackageManagerFrom(fl, ds, dir) ==
    IF dir = Dirname(dir) THEN "npm"
    ELSE IF ExistsSync(fl, ds, Join(dir, <<"bun.lock">>))
            \/ ExistsSync(fl, ds, Join(dir, <<"bun.lockb">>)) THEN "bun"
    ELSE IF ExistsSync(fl, ds, Join(dir, <<"pnpm-lock.yaml">>)) THEN "pnpm"
    ELSE IF ExistsSync(fl, ds, Join(dir, <<"yarn.lock">>)) THEN "yarn"
    ELSE IF ExistsSync(fl, ds, Join(dir, <<"package-lock.json">>)) THEN "npm"
    ELSE PackageManagerFrom(fl, ds, Dirname(dir))

getPackageManager(fl, ds, cwd) == PackageManagerFrom(fl, ds, cwd)

---------------------------------------------------------------------------
(* utils/generator.ts: the content each generator renders.                 *)

\* the values PROVIDERS[id] of the ids, in order
Configs(ids) == [i \in 1..Len(ids) |-> Lookup(ids[i])]

\* providers.filter(p => p.callbackPath !== null)
OAuthOf(ps) == SelectSeq(ps, LAMBDA p : p.callbackPath # Null)

ImportLine(p) == "import " \o p.importName \o " from \"" \o p.importPath \o "\""

\* Array.prototype.join(sep)
RECURSIVE JoinStr(_, _)
JoinStr(ss, sep) ==
    IF ss = << >> THEN ""
    ELSE IF Len(ss) = 1 THEN ss[1]
    ELSE ss[1] \o sep \o JoinStr(Tail(ss), sep)

\* importLines and providerEntries are the two blocks of the template that
\* depend on the selection
providerEntriesNewlineJoined(ps) ==
    JoinStr([i \in 1..Len(ps) |-> "    " \o ps[i].configSnippet], "\n")

\* lines 56-58
providerEntriesOf(ps) ==
    JoinStr([i \in 1..Len(ps) |-> "    " \o ps[i].configSnippet], ",\n")

AuthConfigContent(ps) ==
    [kind |-> "auth.ts",
     importLines |->
        JoinStr([i \in 1..Len(ps) |-> ImportLine(ps[i])], "\n"),
     providerEntries |-> providerEntriesOf(ps)]

MiddlewareContent == [kind |-> "middleware.ts"]

AuthRouteContent == [kind |-> "route.ts"]

SessionProviderContent == [kind |-> "session-provider.tsx"]

UserProfileContent == [kind |-> "user-profile.tsx"]

hasMultipleOAuth(ps) == Len(OAuthOf(ps)) > 1

hasCredentials(ps) == \E i \in 1..Len(ps) : ps[i].id = "credentials"

useGenericSignInOnlyMultiple(ps) == hasMultipleOAuth(ps)

useGenericSignInUnlessAlone(ps) ==
    hasMultipleOAuth(ps) \/ (hasCredentials(ps) /\ Len(ps) > 1)

useGenericSignIn(ps) == hasMultipleOAuth(ps) \/ hasCredentials(ps)

\* providers.find(p => p.callbackPath !== null)?.id || 'google'
FoundId(ps) ==
    IF OAuthOf(ps) = << >> \/ OAuthOf(ps)[1].id = Undefined THEN "google"
    ELSE OAuthOf(ps)[1].id

\* providers.find(p => p.callbackPath !== null)?.name || 'Provider'
FoundName(ps) ==
    IF OAuthOf(ps) = << >> \/ OAuthOf(ps)[1].name = Undefined THEN "Provider"
    ELSE OAuthOf(ps)[1].name

signInCall(ps) ==
    IF useGenericSignIn(ps) THEN "signIn()"
    ELSE "signIn(\"" \o FoundId(ps) \o "\")"

buttonLabel(ps) ==
    IF useGenericSignIn(ps) THEN "Sign In"
    ELSE "Sign in with " \o FoundName(ps)

LoginButtonContent(ps) ==
    [kind |-> "login-button.tsx",
     signInCall |-> signInCall(ps),
     buttonLabel |-> buttonLabel(ps)]

EnvLinesOfAlwaysHeader(p) ==
    <<"", "# " \o p.name \o " OAuth">>
    \o [i \in 1..Len(p.envVars) |->
          p.envVars[i].key \o "=" \o p.envVars[i].placeholder]

\* the lines one provider adds to the environment template
EnvLinesOf(p) ==
    IF Len(p.envVars) > 0
    THEN <<"", "# " \o p.name \o " OAuth">>
         \o [i \in 1..Len(p.envVars) |->
               p.envVars[i].key \o "=" \o p.envVars[i].placeholder]
    ELSE << >>

RECURSIVE EnvLines(_)
EnvLines(ps) ==
    IF ps = << >> THEN << >> ELSE EnvLinesOf(Head(ps)) \o EnvLines(Tail(ps))

EnvExampleContent(ps) ==
    [kind |-> ".env.local.example",
     lines |-> <<"# NextAuth Configuration",
                 "AUTH_SECRET=your-secret-key-here">> \o EnvLines(ps)]

---------------------------------------------------------------------------
(* The seven artifacts, named by the labels of the generators array.       *)

Generators == << "Auth config", "Middleware", "API route", "SessionProvider",
                 "UserProfile", "LoginButton", "Env example" >>

Labels == {Generators[i] : i \in 1..Len(Generators)}

\* the path each generator passes to writeFile
TargetPathSharedComponent(label, st, cwd, pcwd) ==
    CASE label = "Auth config" ->
            IF st.hasSrcDir THEN Join(st.basePath, <<"auth.ts">>)
            ELSE Join(pcwd, <<"auth.ts">>)
      [] label = "Middleware" -> st.middlewarePath
      [] label = "API route" ->
            Join(st.appPath, <<"api", "auth", "[...nextauth]", "route.ts">>)
      [] label \in {"SessionProvider", "UserProfile", "LoginButton"} ->
            Join(st.componentsPath, <<"index.tsx">>)
      [] label = "Env example" -> Join(cwd, <<".env.local.example">>)

TargetPath(label, st, cwd, pcwd) ==
    CASE label = "Auth config" ->
            IF st.hasSrcDir THEN Join(st.basePath, <<"auth.ts">>)
            ELSE Join(pcwd, <<"auth.ts">>)
      [] label = "Middleware" -> st.middlewarePath
      [] label = "API route" ->
            Join(st.appPath, <<"api", "auth", "[...nextauth]", "route.ts">>)
      [] label = "SessionProvider" ->
            Join(st.componentsPath, <<"session-provider.tsx">>)
      [] label = "UserProfile" ->
            Join(st.componentsPath, <<"user-profile.tsx">>)
      [] label = "LoginButton" ->
            Join(st.componentsPath, <<"login-button.tsx">>)
      [] label = "Env example" -> Join(cwd, <<".env.local.example">>)

\* the content each generator passes to writeFile
Render(label, ps) ==
    CASE label = "Auth config" -> AuthConfigContent(ps)
      [] label = "Middleware" -> MiddlewareContent
      [] label = "API route" -> AuthRouteContent
      [] label = "SessionProvider" -> SessionProviderContent
      [] label = "UserProfile" -> UserProfileContent
      [] label = "LoginButton" -> LoginButtonContent(ps)
      [] label = "Env example" -> EnvExampleContent(ps)

\* the generator throws while it renders: generateEnvExample reads
\* provider.envVars.length, a TypeError when envVars is undefined
RenderThrows(label, ps) ==
    label = "Env example" /\ \E i \in 1..Len(ps) : ~ps[i].hasEnvVars

\* fs.ensureDir(d) rejects when d or an ancestor of d is a regular file
EnsureDirThrows(fl, d) == Ancestors(d) \cap DOMAIN fl # {}

writeFileOverwrites(fl, ds, uw, path, content) ==
    IF EnsureDirThrows(fl, Dirname(path))
    THEN [files |-> fl, dirs |-> ds, threw |-> TRUE, written |-> FALSE]
    ELSE IF path \in uw
    THEN [files |-> fl, dirs |-> ds \cup Ancestors(Dirname(path)),
          threw |-> TRUE, written |-> FALSE]
    ELSE [files |-> [q \in DOMAIN fl \cup {path} |->
                        IF q = path THEN content ELSE fl[q]],
          dirs |-> ds \cup Ancestors(Dirname(path)),
          threw |-> FALSE, written |-> TRUE]

\* writeFile on the filesystem (fl, ds), where fs.writeFile rejects at the
\* paths of uw: the filesystem it leaves, whether it threw, what it returned
writeFile(fl, ds, uw, path, content) ==
    IF ExistsSync(fl, ds, path)
    THEN [files |-> fl, dirs |-> ds, threw |-> FALSE, written |-> FALSE]
    ELSE IF EnsureDirThrows(fl, Dirname(path))
    THEN [files |-> fl, dirs |-> ds, threw |-> TRUE, written |-> FALSE]
    ELSE IF path \in uw
    THEN [files |-> fl, dirs |-> ds \cup Ancestors(Dirname(path)),
          threw |-> TRUE, written |-> FALSE]
    ELSE [files |-> [q \in DOMAIN fl \cup {path} |->
                        IF q = path THEN content ELSE fl[q]],
          dirs |-> ds \cup Ancestors(Dirname(path)),
          threw |-> FALSE, written |-> TRUE]

\* lines 15-16 of writeFile, which run once existsSync has answered false:
\* ensureDir, then fs.writeFile, which replaces the content of a file that
\* is there
ensureDirThenWrite(fl, ds, uw, path, content) ==
    IF EnsureDirThrows(fl, Dirname(path))
    THEN [files |-> fl, dirs |-> ds, threw |-> TRUE, written |-> FALSE]
    ELSE IF path \in uw
    THEN [files |-> fl, dirs |-> ds \cup Ancestors(Dirname(path)),
          threw |-> TRUE, written |-> FALSE]
    ELSE [files |-> [q \in DOMAIN fl \cup {path} |->
                        IF q = path THEN content ELSE fl[q]],
          dirs |-> ds \cup Ancestors(Dirname(path)),
          threw |-> FALSE, written |-> TRUE]

\* path.replace(cwd, '.') for a path that is under cwd or apart from it
RelativePath(path, cwd) ==
    IF Len(path) >= Len(cwd) /\ SubSeq(path, 1, Len(cwd)) = cwd
    THEN <<".">> \o SubSeq(path, Len(cwd) + 1, Len(path))
    ELSE path

---------------------------------------------------------------------------
(* index.ts: setupNextAuth(cwd, providerIds), called by cli.ts's main.     *)

\* one iteration of the loop over generators, on r = [files, dirs, results]
GenerateOne(r, label, ps, st, cwd, pcwd, uw) ==
    LET path == TargetPath(label, st, cwd, pcwd)
        w == writeFile(r.files, r.dirs, uw, path, Render(label, ps))
    IN  IF RenderThrows(label, ps)
        THEN [r EXCEPT !.results = Append(@,
                [label |-> label, path |-> << >>, status |-> "error",
                 error |-> "TypeError"])]
        ELSE IF w.threw
        THEN [files |-> w.files, dirs |-> w.dirs,
              results |-> Append(r.results,
                [label |-> label, path |-> << >>, status |-> "error",
                 error |-> "Error"])]
        ELSE [files |-> w.files, dirs |-> w.dirs,
              results |-> Append(r.results,
                [label |-> label, path |-> RelativePath(path, cwd),
                 status |-> IF w.written THEN "created" ELSE "skipped"])]

\* the loop with one try around all of it: the first error ends it
RECURSIVE RunGeneratorsAbortOnError(_, _, _, _, _, _, _)
RunGeneratorsAbortOnError(r, labels, ps, st, cwd, pcwd, uw) ==
    IF labels = << >> THEN r
    ELSE LET n == GenerateOne(r, Head(labels), ps, st, cwd, pcwd, uw)
         IN  IF n.results[Len(n.results)].status = "error" THEN n
             ELSE RunGeneratorsAbortOnError(n, Tail(labels), ps, st, cwd, pcwd, uw)

\* the loop over the generators labels, from r on
RECURSIVE RunGenerators(_, _, _, _, _, _, _)
RunGenerators(r, labels, ps, st, cwd, pcwd, uw) ==
    IF labels = << >> THEN r
    ELSE RunGenerators(GenerateOne(r, Head(labels), ps, st, cwd, pcwd, uw),
                       Tail(labels), ps, st, cwd, pcwd, uw)

NoStructure ==
    [hasSrcDir |-> FALSE, hasAppDir |-> FALSE, basePath |-> << >>,
     appPath |-> << >>, componentsPath |-> << >>, middlewarePath |-> << >>]

\* what `<pm> add next-auth` does to package.json when it succeeds
Installed(fl, cwd) ==
    [fl EXCEPT ![PackageJsonPath(cwd)].dependencies = @ \cup {"next-auth"}]

\* the gate the run ends at, "" when it passes all of them
GateEligibilityFirst(fl, ds, cwd, ids) ==
    IF ~isNextProject(fl, ds, cwd) THEN "not-next"
    ELSE IF ~detectProjectStructure(fl, ds, cwd).hasAppDir THEN "no-app-dir"
    ELSE IF SelectSeq(ids, LAMBDA id : ~InPROVIDERS(id)) # << >>
    THEN "unknown-providers"
    ELSE IF getProviderConfigs(ids).threw THEN "fatal"
    ELSE ""

Gate(fl, ds, cwd, ids) ==
    IF SelectSeq(ids, LAMBDA id : ~InPROVIDERS(id)) # << >>
    THEN "unknown-providers"
    ELSE IF getProviderConfigs(ids).threw THEN "fatal"
    ELSE IF ~isNextProject(fl, ds, cwd) THEN "not-next"
    ELSE IF ~detectProjectStructure(fl, ds, cwd).hasAppDir THEN "no-app-dir"
    ELSE ""

\* what the gate prints on stderr
GateMessage(gate, ids) ==
    CASE gate = "unknown-providers" ->
            << "Unknown providers: "
                 \o JoinStr(SelectSeq(ids, LAMBDA id : ~InPROVIDERS(id)), ", "),
               "Available: google, github, credentials" >>
      [] gate = "fatal" -> << "Fatal error: " \o getProviderConfigs(ids).error >>
      [] gate = "not-next" ->
            << "Error: This does not appear to be a Next.js project." >>
      [] gate = "no-app-dir" ->
            << "Error: App Router (app/ directory) not found." >>
      [] OTHER -> << >>

InstallAbortsOnFailure(installOk) == installOk

\* lines 65-74: the catch around execSync lets the run go on to generate
\* whether or not the install command succeeded
ContinuesAfterInstall(installOk) == TRUE

InstallStepIgnoresGate(fl, ds, cwd, gate, installOk) ==
    IF hasNextAuth(fl, ds, cwd) \/ ~ExistsSync(fl, ds, PackageJsonPath(cwd))
    THEN [install |-> "already", files |-> fl]
    ELSE IF installOk
    THEN [install |-> getPackageManager(fl, ds, cwd), files |-> Installed(fl, cwd)]
    ELSE [install |-> "failed", files |-> fl]

\* lines 52-77, reached when no gate ended the run: which install the run
\* made ("none": not reached, "already": not needed, "failed", or the package
\* manager whose command succeeded) and the files it leaves
InstallStep(fl, ds, cwd, gate, installOk) ==
    IF gate # "" THEN [install |-> "none", files |-> fl]
    ELSE IF hasNextAuth(fl, ds, cwd) THEN [install |-> "already", files |-> fl]
    ELSE IF installOk
    THEN [install |-> getPackageManager(fl, ds, cwd), files |-> Installed(fl, cwd)]
    ELSE [install |-> "failed", files |-> fl]

\* lines 15-79: the gates and the install step.  installOk is whether the
\* install command, if run, succeeds.
Run(ids, installOk) ==
    /\ LET gate == Gate(files, dirs, Cwd, ids)
           step == InstallStep(files, dirs, Cwd, gate, installOk)
       IN  /\ providerIds' = ids
           /\ results' = << >>
           /\ prevResults' = IF pc = "done" THEN results ELSE prevResults
           /\ prevFiles' = IF pc = "done" THEN files ELSE prevFiles
           /\ prevProviderIds' = IF pc = "done" THEN providerIds
                                 ELSE prevProviderIds
           /\ stderr' = GateMessage(gate, ids)
           /\ install' = step.install
           /\ files' = step.files
           /\ providers' = IF gate # "" THEN << >>
                           ELSE getProviderConfigs(ids).value
           /\ structure' = IF gate # "" THEN NoStructure
                           ELSE detectProjectStructure(files, dirs, Cwd)
           /\ IF gate # "" \/ (step.install = "failed"
                               /\ ~ContinuesAfterInstall(installOk))
              THEN pc' = "exited" /\ exitCode' = 1
              ELSE pc' = "generating" /\ exitCode' = -1
    /\ UNCHANGED <<dirs, unwritable, processCwd, call,
                   runs, userFiles>>

\* whether setupNextAuth would run the install command now
NeedsInstall(ids) ==
    Gate(files, dirs, Cwd, ids) = "" /\ ~hasNextAuth(files, dirs, Cwd)

\* the install command succeeds or fails; TRUE alone when it is not run
InstallOutcomes(ids) == IF NeedsInstall(ids) THEN BOOLEAN ELSE {TRUE}

\* the tool is run on the target root
Invoke(ids, installOk) ==
    /\ pc = "idle"
    /\ Run(ids, installOk)

\* the tool is run a second time on the same root, after the first run that
\* reached the summary
Reinvoke(ids, installOk) ==
    /\ pc = "done"
    /\ prevResults = << >>
    /\ Run(ids, installOk)

\* lines 81-108: the loop over the seven generators
Generate ==
    /\ pc = "generating"
    /\ LET r == RunGenerators([files |-> files, dirs |-> dirs, results |-> << >>],
                              Generators, providers, structure, Cwd,
                              processCwd, unwritable)
       IN  /\ files' = r.files
           /\ dirs' = r.dirs
           /\ results' = r.results
    /\ pc' = "summary"
    /\ UNCHANGED <<unwritable, processCwd, providerIds, providers, structure,
                   install, exitCode, stderr, prevResults, prevFiles,
                   prevProviderIds, call,
                   runs, userFiles>>

CountStatus(rs, status) == Len(SelectSeq(rs, LAMBDA r : r.status = status))

\* the loop over provider.setupInstructions throws a TypeError when a
\* provider has none; main's catch then prints it and exits with 1
NextStepsThrow(ps) == \E i \in 1..Len(ps) : ~ps[i].hasSetupInstructions

exitCodeCountsErrors(rs, ps) ==
    IF NextStepsThrow(ps) \/ CountStatus(rs, "error") > 0 THEN 1 ELSE 0

\* the exit code of a run that got to the summary: the results do not
\* enter it; main's catch (cli.ts 95-98) exits with 1 on an uncaught error
exitCodeAfterSummary(rs, ps) == IF NextStepsThrow(ps) THEN 1 ELSE 0

\* lines 110-156: the summary and the next steps
Summarize ==
    /\ pc = "summary"
    /\ pc' = "done"
    /\ exitCode' = exitCodeAfterSummary(results, providers)
    /\ stderr' = IF NextStepsThrow(providers) THEN << "Fatal error: TypeError" >>
                 ELSE stderr
    /\ UNCHANGED <<files, dirs, unwritable, processCwd, providerIds, providers,
                   structure, install, results, prevResults, prevFiles,
                   prevProviderIds, call,
                   runs, userFiles>>

---------------------------------------------------------------------------
(* Direct calls of the pure functions, as the tests make them.             *)

\* all sequences over S of length at most n
SeqsUpTo(S, n) == UNION {[1..k -> S] : k \in 0..n}

CallGetProviderConfigs(ids) ==
    /\ call.fn = "none"
    /\ call' = [fn |-> "getProviderConfigs", ids |-> ids,
                threw |-> getProviderConfigs(ids).threw,
                error |-> getProviderConfigs(ids).error,
                value |-> getProviderConfigs(ids).value]
    /\ UNCHANGED <<files, dirs, unwritable, processCwd, pc, providerIds,
                   providers, structure, install, results, exitCode, stderr,
                   prevResults, prevFiles, prevProviderIds,
                   runs, userFiles>>

\* generateLoginButton's content for the configs of ids, all keys of PROVIDERS
CallLoginButton(ids) ==
    /\ call.fn = "none"
    /\ call' = [fn |-> "generateLoginButton", ids |-> ids,
                threw |-> FALSE, error |-> "",
                value |-> LoginButtonContent(Configs(ids))]
    /\ UNCHANGED <<files, dirs, unwritable, processCwd, pc, providerIds,
                   providers, structure, install, results, exitCode, stderr,
                   prevResults, prevFiles, prevProviderIds,
                   runs, userFiles>>

---------------------------------------------------------------------------
(* Initial states: a target root on disk, before the tool has run.         *)

UserContent == [kind |-> "user"]

\* the directories under the target root besides those of existing files
Layouts == { {}, {<<"app">>}, {<<"src">>}, {<<"src">>, <<"src", "app">>} }

\* package.json: absent, or with these dependency maps
Manifests ==
    { [present |-> FALSE, wellFormed |-> FALSE, dependencies |-> {},
       devDependencies |-> {}],
      [present |-> TRUE, wellFormed |-> TRUE, dependencies |-> {"react"},
       devDependencies |-> {}],
      [present |-> TRUE, wellFormed |-> TRUE, dependencies |-> {"next"},
       devDependencies |-> {}],
      [present |-> TRUE, wellFormed |-> TRUE, dependencies |-> {"next-auth"},
       devDependencies |-> {"next"}] }

NoCall == [fn |-> "none", ids |-> << >>, threw |-> FALSE, error |-> "",
           value |-> << >>]

\* the two processes that may run the tool on the root at the same time
Actors == {"first", "second"}

\* a run that has not begun
NotStarted == [at |-> "idle", ids |-> << >>, providers |-> << >>,
               structure |-> NoStructure, idx |-> 0, results |-> << >>]

NoRuns == [a \in Actors |-> NotStarted]

\* the filesystem with the directories of layout, the manifest m and a
\* user's file at the target path of every label of pre
InitFiles(layout, m, pre, pcwd) ==
    LET ds0 == Ancestors(Cwd) \cup {Join(Cwd, d) : d \in layout}
        st0 == detectProjectStructure(<< >>, ds0, Cwd)
        prePaths == {TargetPath(l, st0, Cwd, pcwd) : l \in pre}
        manifestPaths == IF m.present THEN {PackageJsonPath(Cwd)} ELSE {}
    IN  [q \in prePaths \cup manifestPaths |->
            IF q \in prePaths THEN UserContent
            ELSE [kind |-> "package.json", wellFormed |-> m.wellFormed,
                  dependencies |-> m.dependencies,
                  devDependencies |-> m.devDependencies]]

InitDirs(layout, pre, pcwd) ==
    LET ds0 == Ancestors(Cwd) \cup {Join(Cwd, d) : d \in layout}
        st0 == detectProjectStructure(<< >>, ds0, Cwd)
    IN  ds0 \cup Ancestors(pcwd)
        \cup UNION {Ancestors(Dirname(TargetPath(l, st0, Cwd, pcwd))) : l \in pre}

InitUnwritable(layout, uw, pcwd) ==
    LET ds0 == Ancestors(Cwd) \cup {Join(Cwd, d) : d \in layout}
        st0 == detectProjectStructure(<< >>, ds0, Cwd)
    IN  {TargetPath(l, st0, Cwd, pcwd) : l \in uw}

InitRun ==
    /\ pc = "idle"
    /\ providerIds = << >>
    /\ providers = << >>
    /\ structure = NoStructure
    /\ install = "none"
    /\ results = << >>
    /\ exitCode = -1
    /\ stderr = << >>
    /\ prevResults = << >>
    /\ prevFiles = << >>
    /\ prevProviderIds = << >>
    /\ call = NoCall
    /\ runs = NoRuns
    /\ userFiles = {}

\* the roots whose set of pre-existing or unwritable artifacts is in odds;
\* the tool is started by cli.ts, which passes process.cwd() as the root
InitWith(odds) ==
    /\ \E layout \in Layouts, m \in Manifests, odd \in odds :
          \E pre \in SUBSET odd :
             /\ files = InitFiles(layout, m, pre, Cwd)
             /\ dirs = InitDirs(layout, pre, Cwd)
             /\ unwritable = InitUnwritable(layout, odd \ pre, Cwd)
    /\ processCwd = Cwd
    /\ InitRun

Selections == SeqsUpTo(Ids, MaxSelect)

\* one run of the tool
Init == InitWith({odd \in SUBSET Labels : Cardinality(odd) <= MaxOdd})

Next ==
    \/ \E ids \in Selections :
          \E installOk \in InstallOutcomes(ids) : Invoke(ids, installOk)
    \/ Generate
    \/ Summarize

Spec == Init /\ [][Next]_vars

\* one run on an eligible root that has next-auth, where the writes of any
\* subset of the artifacts are rejected
InitFailures ==
    /\ \E layout \in {l \in Layouts : \E d \in l : d[Len(d)] = "app"},
          m \in {m \in Manifests : "next-auth" \in m.dependencies},
          uw \in SUBSET Labels :
             /\ files = InitFiles(layout, m, {}, Cwd)
             /\ dirs = InitDirs(layout, {}, Cwd)
             /\ unwritable = InitUnwritable(layout, uw, Cwd)
    /\ processCwd = Cwd
    /\ InitRun

SpecFailures == InitFailures /\ [][Next]_vars

\* one run of setupNextAuth(cwd, providerIds) called with the root Cwd by
\* a process whose working directory is the root or another directory
InitApi ==
    /\ \E layout \in Layouts, m \in Manifests, pcwd \in {Cwd, Elsewhere} :
          /\ files = InitFiles(layout, m, {}, pcwd)
          /\ dirs = InitDirs(layout, {}, pcwd)
          /\ processCwd = pcwd
    /\ unwritable = {}
    /\ InitRun

SpecApi == InitApi /\ [][Next]_vars

\* the tool run twice on a root where at most one artifact is pre-existing
\* or unwritable
InitRerun == InitWith({{}} \cup {{l} : l \in Labels})

NextRerun ==
    \/ \E ids \in Selections :
          \E installOk \in InstallOutcomes(ids) : Invoke(ids, installOk)
    \/ \E ids \in Selections :
          \E installOk \in InstallOutcomes(ids) : Reinvoke(ids, installOk)
    \/ Generate
    \/ Summarize

SpecRerun == InitRerun /\ [][NextRerun]_vars

\* the pure functions alone, on a fresh eligible root
InitPure ==
    /\ files = InitFiles({<<"app">>}, CHOOSE m \in Manifests :
                            m.dependencies = {"next"}, {}, Cwd)
    /\ dirs = InitDirs({<<"app">>}, {}, Cwd)
    /\ unwritable = {}
    /\ processCwd = Cwd
    /\ InitRun

NextPure ==
    \/ \E ids \in SeqsUpTo(Ids, MaxIds) : CallGetProviderConfigs(ids)
    \/ \E ids \in SeqsUpTo(RegistryIds \cup InheritedIds, MaxIds) :
          CallLoginButton(ids)

SpecPure == InitPure /\ [][NextPure]_vars

\* the registry read through getAllProviders and getProviderConfigs
CallGetAllProviders ==
    /\ call.fn = "none"
    /\ call' = [fn |-> "getAllProviders", ids |-> << >>, threw |-> FALSE,
                error |-> "", value |-> getAllProviders]
    /\ UNCHANGED <<files, dirs, unwritable, processCwd, pc, providerIds,
                   providers, structure, install, results, exitCode, stderr,
                   prevResults, prevFiles, prevProviderIds,
                   runs, userFiles>>

NextRegistry ==
    \/ CallGetAllProviders
    \/ \E ids \in SeqsUpTo(Ids, MaxIds) : CallGetProviderConfigs(ids)

SpecRegistry == InitPure /\ [][NextRegistry]_vars

---------------------------------------------------------------------------
(* The seven generators run in an arbitrary order.                         *)

Pending == [status |-> "pending"]

\* The loop is about to start: from here the generators are run one at a
\* time in any order, results[i] holding the result of the i-th generator
\* of the array.  prevFiles and prevResults keep what the loop of the code,
\* in the order of the array, makes of the same filesystem.
StartAnyOrder ==
    /\ pc = "generating"
    /\ pc' = "permuting"
    /\ results' = [i \in 1..Len(Generators) |-> Pending]
    /\ LET r == RunGenerators([files |-> files, dirs |-> dirs,
                               results |-> << >>],
                              Generators, providers, structure, Cwd,
                              processCwd, unwritable)
       IN  /\ prevFiles' = r.files
           /\ prevResults' = r.results
    /\ UNCHANGED <<files, dirs, unwritable, processCwd, providerIds,
                   providers, structure, install, exitCode, stderr,
                   prevProviderIds, call,
                   runs, userFiles>>

\* one iteration of the loop, for the i-th generator, not yet run
GenerateAny(i) ==
    /\ pc = "permuting"
    /\ results[i] = Pending
    /\ LET n == GenerateOne([files |-> files, dirs |-> dirs,
                             results |-> << >>],
                            Generators[i], providers, structure, Cwd,
                            processCwd, unwritable)
       IN  /\ files' = n.files
           /\ dirs' = n.dirs
           /\ results' = [results EXCEPT ![i] = n.results[1]]
    /\ pc' = IF \A j \in 1..Len(Generators) : j # i => results[j] # Pending
             THEN "permuted" ELSE "permuting"
    /\ UNCHANGED <<unwritable, processCwd, providerIds, providers, structure,
                   install, exitCode, stderr, prevResults, prevFiles,
                   prevProviderIds, call,
                   runs, userFiles>>

\* an eligible root that has next-auth, where at most MaxOdd artifacts are
\* pre-existing or unwritable, for a process in the root or elsewhere
InitOrder ==
    /\ \E layout \in {l \in Layouts : \E d \in l : d[Len(d)] = "app"},
          m \in {m \in Manifests : "next-auth" \in m.dependencies},
          odd \in {o \in SUBSET Labels : Cardinality(o) <= MaxOdd},
          pcwd \in {Cwd, Elsewhere} :
             \E pre \in SUBSET odd :
                /\ files = InitFiles(layout, m, pre, pcwd)
                /\ dirs = InitDirs(layout, pre, pcwd)
                /\ unwritable = InitUnwritable(layout, odd \ pre, pcwd)
                /\ processCwd = pcwd
    /\ InitRun

NextOrder ==
    \/ \E id \in RegistryIds \cup InheritedIds : Invoke(<< id >>, TRUE)
    \/ StartAnyOrder
    \/ \E i \in 1..Len(Generators) : GenerateAny(i)

SpecOrder == InitOrder /\ [][NextOrder]_vars

---------------------------------------------------------------------------
(* Two runs of the tool and the user at work on one root.  A run's loop    *)
(* is taken one await at a time: writeFile's existsSync is one step, its   *)
(* ensureDir and fs.writeFile the next, and other processes may act in     *)
(* between.                                                                *)

\* the artifact run a is at, and the path it writes
LabelOf(a) == Generators[runs[a].idx]
PathOf(a) == TargetPath(LabelOf(a), runs[a].structure, Cwd, processCwd)

\* run a with result r pushed, at the next iteration of its loop
Advance(a, r) ==
    [runs EXCEPT ![a].results = Append(@, r),
                 ![a].idx = @ + 1,
                 ![a].at = IF runs[a].idx = Len(Generators) THEN "summary"
                           ELSE "exists"]

\* lines 15-79 for a run that passes the gates and needs no install; of the
\* two runs the one that begins first is called first
RaceBegin(a, ids) ==
    /\ runs[a].at = "idle"
    /\ a = "second" => runs["first"].at # "idle"
    /\ Gate(files, dirs, Cwd, ids) = ""
    /\ hasNextAuth(files, dirs, Cwd)
    /\ runs' = [runs EXCEPT ![a] =
                  [at |-> "exists", ids |-> ids,
                   providers |-> getProviderConfigs(ids).value,
                   structure |-> detectProjectStructure(files, dirs, Cwd),
                   idx |-> 1, results |-> << >>]]
    /\ UNCHANGED <<files, dirs, unwritable, processCwd, pc, providerIds,
                   providers, structure, install, results, exitCode, stderr,
                   prevResults, prevFiles, prevProviderIds, call, userFiles>>

\* the generator renders and writeFile asks existsSync (generator.ts 12-14)
RaceExists(a) ==
    /\ runs[a].at = "exists"
    /\ runs' =
          IF RenderThrows(LabelOf(a), runs[a].providers)
          THEN Advance(a, [label |-> LabelOf(a), path |-> << >>,
                           status |-> "error", error |-> "TypeError"])
          ELSE IF ExistsSync(files, dirs, PathOf(a))
          THEN Advance(a, [label |-> LabelOf(a),
                           path |-> RelativePath(PathOf(a), Cwd),
                           status |-> "skipped"])
          ELSE [runs EXCEPT ![a].at = "write"]
    /\ UNCHANGED <<files, dirs, unwritable, processCwd, pc, providerIds,
                   providers, structure, install, results, exitCode, stderr,
                   prevResults, prevFiles, prevProviderIds, call, userFiles>>

\* writeFile goes on after the check (generator.ts 15-17) and the loop
\* pushes the result
RaceWrite(a) ==
    /\ runs[a].at = "write"
    /\ LET w == ensureDirThenWrite(files, dirs, unwritable, PathOf(a),
                                   Render(LabelOf(a), runs[a].providers))
       IN  /\ files' = w.files
           /\ dirs' = w.dirs
           /\ runs' = IF w.threw
                      THEN Advance(a, [label |-> LabelOf(a), path |-> << >>,
                                       status |-> "error", error |-> "Error"])
                      ELSE Advance(a, [label |-> LabelOf(a),
                                       path |-> RelativePath(PathOf(a), Cwd),
                                       status |-> "created"])
    /\ UNCHANGED <<unwritable, processCwd, pc, providerIds, providers,
                   structure, install, results, exitCode, stderr, prevResults,
                   prevFiles, prevProviderIds, call, userFiles>>

\* the user writes a file of their own where a run has found none and is
\* about to write
UserCreates(label) ==
    LET path == TargetPath(label, detectProjectStructure(files, dirs, Cwd),
                           Cwd, processCwd)
    IN  /\ Cardinality(userFiles) < MaxUserFiles
        /\ \E a \in Actors : runs[a].at = "write" /\ PathOf(a) = path
        /\ ~ExistsSync(files, dirs, path)
        /\ files' = [q \in DOMAIN files \cup {path} |->
                        IF q = path THEN UserContent ELSE files[q]]
        /\ dirs' = dirs \cup Ancestors(Dirname(path))
        /\ userFiles' = userFiles \cup {path}
        /\ UNCHANGED <<unwritable, processCwd, pc, providerIds, providers,
                       structure, install, results, exitCode, stderr,
                       prevResults, prevFiles, prevProviderIds, call, runs>>

\* a fresh eligible root that has next-auth
InitRace ==
    /\ \E layout \in {l \in Layouts : \E d \in l : d[Len(d)] = "app"},
          m \in {m \in Manifests : "next-auth" \in m.dependencies} :
             /\ files = InitFiles(layout, m, {}, Cwd)
             /\ dirs = InitDirs(layout, {}, Cwd)
    /\ unwritable = {}
    /\ processCwd = Cwd
    /\ InitRun

\* the selections of the two runs: the same provider, or another
RaceSelections ==
    [first |-> {<< "google" >>}, second |-> {<< "google" >>, << "github" >>}]

NextRace ==
    \/ \E a \in Actors : \E ids \in RaceSelections[a] : RaceBegin(a, ids)
    \/ \E a \in Actors : RaceExists(a)
    \/ \E a \in Actors : RaceWrite(a)
    \/ \E label \in Labels : UserCreates(label)

SpecRace == InitRace /\ [][NextRace]_vars

---------------------------------------------------------------------------
(* cli.ts: main.                                                           *)

\* The command line, as main reads it: whether -h / --help and -v /
\* --version occur, whether --providers occurs, whether an argument follows
\* it, and the tokens that argument splits into at its commas.
CliTokens == Ids \cup {"", " github"}

\* s.trim()
Trim(tok) == IF tok = " github" THEN "github" ELSE tok

CliArgs ==
    [help : BOOLEAN, version : BOOLEAN, flag : {FALSE}, hasNext : {FALSE},
     tokens : {<< >>}]
    \cup [help : BOOLEAN, version : BOOLEAN, flag : {TRUE}, hasNext : {FALSE},
          tokens : {<< >>}]
    \cup [help : BOOLEAN, version : BOOLEAN, flag : {TRUE}, hasNext : {TRUE},
          tokens : SeqsUpTo(CliTokens, MaxArgs) \ {<< >>}]

\* what the multiselect prompt resolves to: the cancel symbol (<<>> here;
\* required: true leaves no empty selection) or the chosen ids
PromptAnswers ==
    {a \in SeqsUpTo(RegistryIds, MaxSelect) :
        \A i, j \in 1..Len(a) : i # j => a[i] # a[j]}

\* line 58: providersIndex !== -1 && args[providersIndex + 1]; the empty
\* string, which splits into the one token "", is falsy
hasProvidersValue(args) ==
    args.flag /\ args.hasNext /\ args.tokens # << "" >>

\* line 59
splitIds(args) == [i \in 1..Len(args.tokens) |-> Trim(args.tokens[i])]

\* line 61
invalidIds(ids) == SelectSeq(ids, LAMBDA id : ~InPROVIDERS(id))

\* main up to the call of setupNextAuth: whether the prompt was entered,
\* the exit code if main ended the process (-1 if not), what it printed on
\* stderr and the selection it goes on with
CliOutcome(args, answer) ==
    IF args.help \/ args.version
    THEN [prompted |-> FALSE, exit |-> 0, stderr |-> << >>,
          selectedProviderIds |-> << >>]
    ELSE IF hasProvidersValue(args)
    THEN IF invalidIds(splitIds(args)) # << >>
         THEN [prompted |-> FALSE, exit |-> 1,
               stderr |-> << "Unknown providers: "
                               \o JoinStr(invalidIds(splitIds(args)), ", "),
                             "Available: google, github, credentials" >>,
               selectedProviderIds |-> << >>]
         ELSE [prompted |-> FALSE, exit |-> -1, stderr |-> << >>,
               selectedProviderIds |-> splitIds(args)]
    ELSE IF answer = << >>
    THEN [prompted |-> TRUE, exit |-> 0, stderr |-> << >>,
          selectedProviderIds |-> << >>]
    ELSE [prompted |-> TRUE, exit |-> -1, stderr |-> << >>,
          selectedProviderIds |-> answer]

\* lines 42-91
CliMain(args, answer) ==
    /\ pc = "idle"
    /\ call.fn = "none"
    /\ LET o == CliOutcome(args, answer)
       IN  /\ call' = [fn |-> "main", ids |-> args.tokens, threw |-> FALSE,
                       error |-> "",
                       value |-> [args |-> args, prompted |-> o.prompted,
                                  selectedProviderIds |->
                                      o.selectedProviderIds]]
           /\ pc' = IF o.exit = -1 THEN "main" ELSE "cli-exited"
           /\ exitCode' = o.exit
           /\ stderr' = o.stderr
    /\ UNCHANGED <<files, dirs, unwritable, processCwd, providerIds,
                   providers, structure, install, results, prevResults,
                   prevFiles, prevProviderIds,
                   runs, userFiles>>

\* line 92: await setupNextAuth(process.cwd(), selectedProviderIds)
CliSetup(installOk) ==
    /\ pc = "main"
    /\ Run(call.value.selectedProviderIds, installOk)

\* one run of the command on a root with no artifact yet
InitCli == InitWith({{}})

NextCli ==
    \/ \E args \in CliArgs, answer \in PromptAnswers : CliMain(args, answer)
    \/ \E installOk \in BOOLEAN : CliSetup(installOk)
    \/ Generate
    \/ Summarize

SpecCli == InitCli /\ [][NextCli]_vars

---------------------------------------------------------------------------
(* Direct rendering of the two artifacts whose content lists the providers *)

\* the content generateEnvExample builds for the configs of ids
CallEnvExample(ids) ==
    /\ call.fn = "none"
    /\ call' = [fn |-> "generateEnvExample", ids |-> ids,
                threw |-> RenderThrows("Env example", Configs(ids)),
                error |-> IF RenderThrows("Env example", Configs(ids))
                          THEN "TypeError" ELSE "",
                value |-> IF RenderThrows("Env example", Configs(ids))
                          THEN [kind |-> Undefined]
                          ELSE EnvExampleContent(Configs(ids))]
    /\ UNCHANGED <<files, dirs, unwritable, processCwd, pc, providerIds,
                   providers, structure, install, results, exitCode, stderr,
                   prevResults, prevFiles, prevProviderIds,
                   runs, userFiles>>

\* the content generateAuthConfig builds for the configs of ids
CallAuthConfig(ids) ==
    /\ call.fn = "none"
    /\ call' = [fn |-> "generateAuthConfig", ids |-> ids,
                threw |-> FALSE, error |-> "",
                value |-> AuthConfigContent(Configs(ids))]
    /\ UNCHANGED <<files, dirs, unwritable, processCwd, pc, providerIds,
                   providers, structure, install, results, exitCode, stderr,
                   prevResults, prevFiles, prevProviderIds,
                   runs, userFiles>>

\* the selections the orchestrator lets through its provider gate
NextRender ==
    \/ \E ids \in SeqsUpTo(RegistryIds \cup InheritedIds, MaxIds) :
          CallEnvExample(ids)
    \/ \E ids \in SeqsUpTo(RegistryIds \cup InheritedIds, MaxIds) :
          CallAuthConfig(ids)

SpecRender == InitPure /\ [][NextRender]_vars

---------------------------------------------------------------------------
(* Direct calls of the functions of utils/detect.ts on a snapshot.         *)

CallDetectProjectStructure ==
    /\ call.fn = "none"
    /\ call' = [fn |-> "detectProjectStructure", ids |-> << >>,
                threw |-> FALSE, error |-> "",
                value |-> detectProjectStructure(files, dirs, Cwd)]
    /\ UNCHANGED <<files, dirs, unwritable, processCwd, pc, providerIds,
                   providers, structure, install, results, exitCode, stderr,
                   prevResults, prevFiles, prevProviderIds,
                   runs, userFiles>>

\* the try / catch of isNextProject leaves no exception to escape
CallIsNextProject ==
    /\ call.fn = "none"
    /\ call' = [fn |-> "isNextProject", ids |-> << >>,
                threw |-> FALSE, error |-> "",
                value |-> isNextProject(files, dirs, Cwd)]
    /\ UNCHANGED <<files, dirs, unwritable, processCwd, pc, providerIds,
                   providers, structure, install, results, exitCode, stderr,
                   prevResults, prevFiles, prevProviderIds,
                   runs, userFiles>>

CallHasNextAuth ==
    /\ call.fn = "none"
    /\ call' = [fn |-> "hasNextAuth", ids |-> << >>,
                threw |-> FALSE, error |-> "",
                value |-> hasNextAuth(files, dirs, Cwd)]
    /\ UNCHANGED <<files, dirs, unwritable, processCwd, pc, providerIds,
                   providers, structure, install, results, exitCode, stderr,
                   prevResults, prevFiles, prevProviderIds,
                   runs, userFiles>>

CallGetPackageManager ==
    /\ call.fn = "none"
    /\ call' = [fn |-> "getPackageManager", ids |-> << >>,
                threw |-> FALSE, error |-> "",
                value |-> getPackageManager(files, dirs, Cwd)]
    /\ UNCHANGED <<files, dirs, unwritable, processCwd, pc, providerIds,
                   providers, structure, install, results, exitCode, stderr,
                   prevResults, prevFiles, prevProviderIds,
                   runs, userFiles>>

\* the layouts of src/, app/ and src/app/ under the root
DetectLayouts ==
    {l \in SUBSET {<<"src">>, <<"app">>, <<"src", "app">>} :
        <<"src", "app">> \in l => <<"src">> \in l}

PackageNames == {"next", "next-auth", "react"}

DepSets == {d \in SUBSET PackageNames : Cardinality(d) <= MaxDeps}

\* package.json: absent, a directory, a file that is not JSON, or a JSON
\* object with dependencies and devDependencies
DetectManifests ==
    { [at |-> "absent", wellFormed |-> FALSE, dependencies |-> {},
       devDependencies |-> {}],
      [at |-> "directory", wellFormed |-> FALSE, dependencies |-> {},
       devDependencies |-> {}],
      [at |-> "file", wellFormed |-> FALSE, dependencies |-> {},
       devDependencies |-> {}] }
    \cup { [at |-> "file", wellFormed |-> TRUE, dependencies |-> d,
            devDependencies |-> dd] : d \in DepSets, dd \in DepSets }

\* snapshots for detectProjectStructure, isNextProject and hasNextAuth
InitDetect ==
    /\ \E layout \in DetectLayouts, m \in DetectManifests :
          /\ files = IF m.at = "file"
                     THEN [q \in {PackageJsonPath(Cwd)} |->
                             [kind |-> "package.json",
                              wellFormed |-> m.wellFormed,
                              dependencies |-> m.dependencies,
                              devDependencies |-> m.devDependencies]]
                     ELSE << >>
          /\ dirs = Ancestors(Cwd) \cup {Join(Cwd, d) : d \in layout}
                    \cup (IF m.at = "directory" THEN {PackageJsonPath(Cwd)}
                          ELSE {})
    /\ unwritable = {}
    /\ processCwd = Cwd
    /\ InitRun

NextDetect ==
    \/ CallDetectProjectStructure
    \/ CallIsNextProject
    \/ CallHasNextAuth

SpecDetect == InitDetect /\ [][NextDetect]_vars

\* the lock files getPackageManager looks for, in the order it looks
Sentinels ==
    << "bun.lock", "bun.lockb", "pnpm-lock.yaml", "yarn.lock",
       "package-lock.json" >>

LockFile == [kind |-> "lock"]

\* the sets of at most MaxLocks lock files in the target directory and the
\* directories above it, the filesystem root included
LockPlacements ==
    {ls \in SUBSET {Join(d, <<Sentinels[i]>>) :
                       d \in Ancestors(Cwd), i \in 1..Len(Sentinels)} :
        Cardinality(ls) <= MaxLocks}

\* snapshots for getPackageManager
InitLocks ==
    /\ \E ls \in LockPlacements : files = [q \in ls |-> LockFile]
    /\ dirs = Ancestors(Cwd)
    /\ unwritable = {}
    /\ processCwd = Cwd
    /\ InitRun

NextLocks == CallGetPackageManager

SpecLocks == InitLocks /\ [][NextLocks]_vars

---------------------------------------------------------------------------
(* Runs to their end, and the loop of getPackageManager one iteration at   *)
(* a time.                                                                 *)

\* lines 91-94 of getPackageManager: what the iteration at dir returns, ""
\* when it goes on to the parent
LockIn(fl, ds, dir) ==
    IF ExistsSync(fl, ds, Join(dir, <<"bun.lock">>))
       \/ ExistsSync(fl, ds, Join(dir, <<"bun.lockb">>)) THEN "bun"
    ELSE IF ExistsSync(fl, ds, Join(dir, <<"pnpm-lock.yaml">>)) THEN "pnpm"
    ELSE IF ExistsSync(fl, ds, Join(dir, <<"yarn.lock">>)) THEN "yarn"
    ELSE IF ExistsSync(fl, ds, Join(dir, <<"package-lock.json">>)) THEN "npm"
    ELSE ""

\* the directories getPackageManager is called with: the root, the
\* directories above it, the filesystem root, and one below the root
WalkStarts == Ancestors(Cwd) \cup {Join(Cwd, <<"packages">>)}

\* line 89: let dir = cwd
WalkBegin(start) ==
    /\ pc = "idle"
    /\ call.fn = "none"
    /\ pc' = "walking"
    /\ call' = [fn |-> "getPackageManager", ids |-> << >>, threw |-> FALSE,
                error |-> "", value |-> [start |-> start, dir |-> start,
                                         returned |-> ""]]
    /\ UNCHANGED <<files, dirs, unwritable, processCwd, providerIds,
                   providers, structure, install, results, exitCode, stderr,
                   prevResults, prevFiles, prevProviderIds, runs, userFiles>>

\* lines 90-97: the test of the while, and one iteration or the return
WalkStep ==
    /\ pc = "walking"
    /\ LET dir == call.value.dir
       IN  IF dir = Dirname(dir)
           THEN /\ call' = [call EXCEPT !.value.returned = "npm"]
                /\ pc' = "returned"
           ELSE IF LockIn(files, dirs, dir) # ""
           THEN /\ call' = [call EXCEPT !.value.returned =
                                           LockIn(files, dirs, dir)]
                /\ pc' = "returned"
           ELSE /\ call' = [call EXCEPT !.value.dir = Dirname(dir)]
                /\ pc' = "walking"
    /\ UNCHANGED <<files, dirs, unwritable, processCwd, providerIds,
                   providers, structure, install, results, exitCode, stderr,
                   prevResults, prevFiles, prevProviderIds, runs, userFiles>>

\* an iteration that is made again when the generator has failed
GenerateNextRetriesOnError ==
    /\ pc = "generating"
    /\ LET n == GenerateOne([files |-> files, dirs |-> dirs,
                             results |-> results],
                            Generators[Len(results) + 1], providers,
                            structure, Cwd, processCwd, unwritable)
           failed == n.results[Len(n.results)].status = "error"
       IN  /\ files' = n.files
           /\ dirs' = n.dirs
           /\ results' = IF failed THEN results ELSE n.results
           /\ pc' = IF ~failed /\ Len(n.results) = Len(Generators)
                    THEN "summary" ELSE "generating"
    /\ UNCHANGED <<unwritable, processCwd, providerIds, providers, structure,
                   install, exitCode, stderr, prevResults, prevFiles,
                   prevProviderIds, call, runs, userFiles>>

\* one iteration of the loop over generators (lines 93-108): the next
\* generator is awaited and its result pushed
GenerateNext ==
    /\ pc = "generating"
    /\ LET n == GenerateOne([files |-> files, dirs |-> dirs,
                             results |-> results],
                            Generators[Len(results) + 1], providers,
                            structure, Cwd, processCwd, unwritable)
       IN  /\ files' = n.files
           /\ dirs' = n.dirs
           /\ results' = n.results
           /\ pc' = IF Len(n.results) = Len(Generators) THEN "summary"
                    ELSE "generating"
    /\ UNCHANGED <<unwritable, processCwd, providerIds, providers, structure,
                   install, exitCode, stderr, prevResults, prevFiles,
                   prevProviderIds, call, runs, userFiles>>

\* roots of every layout and manifest, eligible roots where writes fail,
\* and roots with lock files at and above them
InitTerminates == InitApi \/ InitFailures \/ InitLocks

NextTerminates ==
    \/ \E ids \in Selections :
          \E installOk \in InstallOutcomes(ids) : Invoke(ids, installOk)
    \/ GenerateNext
    \/ Summarize
    \/ \E start \in WalkStarts : WalkBegin(start)
    \/ WalkStep

\* The install command and the filesystem calls return, so a run that waits
\* for one goes on; the loop of getPackageManager is synchronous.
SpecTerminates ==
    /\ InitTerminates
    /\ [][NextTerminates]_vars
    /\ WF_vars(GenerateNext)
    /\ WF_vars(Summarize)
    /\ WF_vars(WalkStep)

---------------------------------------------------------------------------
(* Vocabulary of the properties.                                           *)

Range(f) == {f[i] : i \in DOMAIN f}

\* the status the results rs report for the artifact label, "none" when
\* they hold no result for it
StatusOf(rs, label) ==
    IF \E i \in 1..Len(rs) : rs[i].label = label
    THEN rs[CHOOSE i \in 1..Len(rs) : rs[i].label = label].status
    ELSE "none"

Absent == [kind |-> "absent"]

\* the content of the file at path p in fl
ContentAt(fl, p) == IF p \in DOMAIN fl THEN fl[p] ELSE Absent

\* the target path of an artifact in the current run
Target(label) == TargetPath(label, structure, Cwd, processCwd)

\* the generator of label throws when it runs on the current filesystem:
\* while it renders, or in writeFile because the directory cannot be made or
\* the write is rejected
WriteFails(label) ==
    /\ ~ExistsSync(files, dirs, Target(label))
    /\ \/ Target(label) \in unwritable
       \/ EnsureDirThrows(files, Dirname(Target(label)))

GeneratorFails(label) == RenderThrows(label, providers) \/ WriteFails(label)

\* a step of the loop over the generators
GenerateStep == pc = "generating" /\ pc' = "summary"

\* the run has been through the loop over the generators
Generated == pc \in {"summary", "done"}

\* a second run has been through the loop after a first that had, too
RanTwice == Generated /\ prevResults # << >>

\* the selection names providers of the registry only
RegistrySelection(ids) == Range(ids) \subseteq RegistryIds

---------------------------------------------------------------------------
(* C1.  Guarded write.                                                     *)

\* C1, as stated: for each of the 7 artifacts, if something exists at its
\* target path when the generators run, the path is left as it is and the
\* artifact is reported skipped; otherwise the parent directories are
\* created, the rendered content is written and the artifact is reported
\* created.  (No generator writes another's target path, so what exists at a
\* target path before the loop is what exists when its generator runs.)
\* Stated for the selections of registry providers.
C1_GuardedWriteAlwaysCreates ==
    [][GenerateStep /\ RegistrySelection(providerIds) =>
        \A l \in Labels :
            IF ExistsSync(files, dirs, Target(l))
            THEN /\ ContentAt(files', Target(l)) = ContentAt(files, Target(l))
                 /\ StatusOf(results', l) = "skipped"
            ELSE /\ Ancestors(Dirname(Target(l))) \subseteq dirs'
                 /\ ContentAt(files', Target(l)) = Render(l, providers)
                 /\ StatusOf(results', l) = "created"]_vars

\* C1, amended: the same for every artifact whose generator does not throw;
\* an artifact whose generator throws (rendering, making the directory or
\* the write fails) is reported as error and its target path is left as it
\* was.
C1_GuardedWrite ==
    [][GenerateStep =>
        \A l \in Labels :
            IF GeneratorFails(l)
            THEN /\ ContentAt(files', Target(l)) = ContentAt(files, Target(l))
                 /\ StatusOf(results', l) = "error"
            ELSE IF ExistsSync(files, dirs, Target(l))
            THEN /\ ContentAt(files', Target(l)) = ContentAt(files, Target(l))
                 /\ StatusOf(results', l) = "skipped"
            ELSE /\ Ancestors(Dirname(Target(l))) \subseteq dirs'
                 /\ ContentAt(files', Target(l)) = Render(l, providers)
                 /\ StatusOf(results', l) = "created"]_vars

\* a run that skipped a user's file, created another artifact in a directory
\* it had to make, and left the user's file as it was
C1_Witness ==
    /\ Generated
    /\ \E l \in Labels :
          /\ StatusOf(results, l) = "skipped"
          /\ ContentAt(files, Target(l)) = UserContent
    /\ \E l \in Labels :
          /\ StatusOf(results, l) = "created"
          /\ ContentAt(files, Target(l)) = Render(l, providers)

---------------------------------------------------------------------------
(* C2.  Idempotence of running the pipeline twice with one selection.      *)

\* the contents of the seven target paths in fl
ArtifactContents(fl) == [l \in Labels |-> ContentAt(fl, Target(l))]

SameSelectionTwice == RanTwice /\ providerIds = prevProviderIds

\* C2, as stated: after the second of two runs with the same selection the
\* artifacts' contents are what the first run left, and the second run
\* reports all 7 artifacts as skipped.  Stated for the selections of
\* registry providers.
C2_SecondRunSkipsAll ==
    SameSelectionTwice /\ RegistrySelection(providerIds) =>
        /\ ArtifactContents(files) = ArtifactContents(prevFiles)
        /\ Len(results) = 7
        /\ \A l \in Labels : StatusOf(results, l) = "skipped"

\* C2, amended: the second run reports as skipped every artifact that the
\* first run reported created or skipped, and leaves the content of each of
\* them as the first run left it; an artifact the first run reported as
\* error is attempted again.
C2_SecondRunSkipsWhatExists ==
    SameSelectionTwice =>
        /\ Len(results) = 7
        /\ \A l \in Labels :
              StatusOf(prevResults, l) \in {"created", "skipped"} =>
                 /\ StatusOf(results, l) = "skipped"
                 /\ ContentAt(files, Target(l)) # Absent
                 /\ ContentAt(files, Target(l)) = ContentAt(prevFiles, Target(l))
        /\ \A l \in Labels :
              StatusOf(prevResults, l) = "error" =>
                 StatusOf(results, l) \in {"created", "error"}

\* the first run created all 7 artifacts and the second skipped all 7
C2_Witness ==
    /\ SameSelectionTwice
    /\ \A l \in Labels : StatusOf(prevResults, l) = "created"
    /\ \A l \in Labels : StatusOf(results, l) = "skipped"
    /\ ArtifactContents(files) = ArtifactContents(prevFiles)

---------------------------------------------------------------------------
(* C3.  Failure isolation.                                                 *)

\* the loop on the current filesystem if no write were rejected
IdealRun ==
    RunGenerators([files |-> files, dirs |-> dirs, results |-> << >>],
                  Generators, providers, structure, Cwd, processCwd, {})

\* C3: whatever the set of artifacts whose generator fails, the loop runs
\* all 7 generators in order; an artifact gets an error result exactly when
\* its generator fails, and every other artifact gets the result (created or
\* skipped) and the content it gets in a run where no write is rejected.
C3_FailureIsolation ==
    [][GenerateStep =>
        /\ Len(results') = 7
        /\ \A i \in 1..7 :
              LET l == Generators[i] IN
              /\ results'[i].label = l
              /\ (results'[i].status = "error") <=> GeneratorFails(l)
              /\ ~GeneratorFails(l) =>
                    /\ results'[i].status \in {"created", "skipped"}
                    /\ results'[i] = IdealRun.results[i]
                    /\ ContentAt(files', Target(l))
                         = ContentAt(IdealRun.files, Target(l))]_vars

\* the writes of the first, the third and the sixth artifact failed and the
\* four others were created
C3_Witness ==
    /\ Generated
    /\ unwritable = {Target("Auth config"), Target("API route"),
                     Target("LoginButton")}
    /\ \A i \in {1, 3, 6} : results[i].status = "error"
    /\ \A i \in {2, 4, 5, 7} : results[i].status = "created"

---------------------------------------------------------------------------
(* C4.  A run that ends at a gate writes nothing.                          *)

\* C4: a step that ends the run at a gate (not a Next.js project, no app
\* directory, a rejected provider id) ends the process with code 1 and
\* leaves files and directories as they were; no generator has run and the
\* install command has not been run.
C4_GateWritesNothing ==
    [][pc' = "exited" /\ pc # "exited" =>
        /\ files' = files
        /\ dirs' = dirs
        /\ install' = "none"
        /\ results' = << >>
        /\ exitCode' = 1
        /\ stderr' # << >>]_vars

\* a run ended at a gate on a root whose package.json lacks next-auth, so
\* that an install before the gate would have changed it
C4_Witness ==
    /\ pc = "exited"
    /\ exitCode = 1
    /\ PackageJsonPath(Cwd) \in DOMAIN files
    /\ ~hasNextAuth(files, dirs, Cwd)
    /\ install = "none"

---------------------------------------------------------------------------
(* C5.  No clobber across different selections.                            *)

DifferentSelectionTwice == RanTwice /\ providerIds # prevProviderIds

\* the artifacts whose content depends on the selection
ProviderDependent == {"Auth config", "LoginButton", "Env example"}

---------------------------------------------------------------------------
(* C6.  Best-effort install.                                               *)

\* C6: when next-auth is absent from the manifest and the install command
\* fails, the run goes on to the generators with the files as they were,
\* and the loop gives the results it gives after a successful install.
C6_InstallFailureContinues ==
    [][/\ (pc = "idle" /\ install' = "failed" =>
              pc' = "generating" /\ exitCode' = -1 /\ files' = files)
       /\ (GenerateStep /\ install = "failed" =>
              /\ Len(results') = 7
              /\ results' =
                   RunGenerators([files |-> Installed(files, Cwd),
                                  dirs |-> dirs, results |-> << >>],
                                 Generators, providers, structure, Cwd,
                                 processCwd, unwritable).results)]_vars

\* a run whose install failed reached the summary with 7 results
C6_Witness ==
    /\ pc = "done"
    /\ install = "failed"
    /\ ~hasNextAuth(files, dirs, Cwd)
    /\ Len(results) = 7
    /\ \E i \in 1..7 : results[i].status = "created"

---------------------------------------------------------------------------
(* C7.  The order of the gates.                                            *)

Rejected(ids) == \E i \in 1..Len(ids) : ~InPROVIDERS(ids[i])

Ineligible ==
    \/ ~isNextProject(files, dirs, Cwd)
    \/ ~detectProjectStructure(files, dirs, Cwd).hasAppDir

EligibilityMessages ==
    { << "Error: This does not appear to be a Next.js project." >>,
      << "Error: App Router (app/ directory) not found." >> }

---------------------------------------------------------------------------
(* C8, C9.  The sign-in trigger of the login button.                       *)

LoginButtonCalled ==
    call.fn = "generateLoginButton" /\ RegistrySelection(call.ids)

\* how many entries of the selection are redirect-based providers
OAuthCount(ids) ==
    Cardinality({i \in 1..Len(ids) : PROVIDERS[ids[i]].callbackPath # Null})

CredentialsSelected(ids) == "credentials" \in Range(ids)

Names(content, id) ==
    /\ content.signInCall = "signIn(\"" \o id \o "\")"
    /\ content.buttonLabel = "Sign in with " \o PROVIDERS[id].name

IsGeneric(content) ==
    content.signInCall = "signIn()" /\ content.buttonLabel = "Sign In"

\* C8: a selection of one redirect-based provider alone gives a sign-in call
\* with that provider's id and a label with its display name; a selection
\* with two redirect-based providers, or with the credential provider and
\* any other provider, gives the generic call and the generic label.
C8_SignInTriggerSelection ==
    LoginButtonCalled =>
        /\ Len(call.ids) = 1 /\ OAuthCount(call.ids) = 1 =>
              Names(call.value, call.ids[1])
        /\ OAuthCount(call.ids) >= 2 => IsGeneric(call.value)
        /\ CredentialsSelected(call.ids) /\ Len(call.ids) >= 2 =>
              IsGeneric(call.value)

\* github with the credential provider gives the generic trigger
C8_Witness ==
    /\ LoginButtonCalled
    /\ call.ids = << "github", "credentials" >>
    /\ IsGeneric(call.value)

\* C9, as stated: a selection of a single provider, the credential provider
\* included, gives a sign-in call that names that provider and a label with
\* its display name.
C9_SingleProviderNamed ==
    LoginButtonCalled /\ Len(call.ids) = 1 =>
        Names(call.value, call.ids[1])

\* C9, amended: a selection with exactly one redirect-based provider and
\* without the credential provider names that provider in the call and in
\* the label; a selection with the credential provider, alone or not, gives
\* the generic call and the generic label.
C9_NamedUnlessCredentials ==
    LoginButtonCalled =>
        /\ OAuthCount(call.ids) = 1 /\ ~CredentialsSelected(call.ids) =>
              Names(call.value, call.ids[1])
        /\ CredentialsSelected(call.ids) => IsGeneric(call.value)

\* the credential provider alone gives the generic trigger
C9_Witness ==
    /\ LoginButtonCalled
    /\ call.ids = << "credentials" >>
    /\ IsGeneric(call.value)

---------------------------------------------------------------------------
(* C10.  Provider resolution.                                              *)

UnknownProviderErrors(ids) ==
    {"Unknown provider: " \o ids[i] :
        i \in {j \in 1..Len(ids) : ids[j] \notin RegistryIds}}

\* C10: getProviderConfigs gives, for a non-empty sequence of registry ids,
\* the configs in the order of the ids; for a sequence with an id that is
\* not a registry id it throws an error that names such an id.
C10_ProviderResolution ==
    call.fn = "getProviderConfigs" =>
        /\ call.ids # << >> /\ RegistrySelection(call.ids) =>
              /\ ~call.threw
              /\ Len(call.value) = Len(call.ids)
              /\ \A i \in 1..Len(call.ids) : call.value[i].id = call.ids[i]
        /\ ~RegistrySelection(call.ids) =>
              /\ call.threw
              /\ call.error \in UnknownProviderErrors(call.ids)

---------------------------------------------------------------------------
(* C11 - C14.  detectProjectStructure.                                     *)

StructureDetected == call.fn = "detectProjectStructure"

\* a src directory exists under the root
SrcPresent == Join(Cwd, <<"src">>) \in dirs

\* path p lies under directory d
IsUnder(p, d) == Len(p) > Len(d) /\ SubSeq(p, 1, Len(d)) = d

---------------------------------------------------------------------------
(* C15.  The target path of the auth configuration.                        *)

\* where C15 says the auth configuration goes
AuthConfigInRoot ==
    IF structure.hasSrcDir THEN Join(Cwd, <<"src", "auth.ts">>)
    ELSE Join(Cwd, <<"auth.ts">>)

\* C15: a run that reports the auth configuration created has written it at
\* <root>/src/auth.ts when the root has a src directory and at
\* <root>/auth.ts otherwise: in the directory of the middleware file, under
\* the target root.
C15_AuthConfigInRoot ==
    Generated /\ StatusOf(results, "Auth config") = "created" =>
        /\ ContentAt(files, AuthConfigInRoot) = AuthConfigContent(providers)
        /\ Dirname(AuthConfigInRoot) = Dirname(structure.middlewarePath)
        /\ IsUnder(AuthConfigInRoot, Cwd)

---------------------------------------------------------------------------
(* C16.  The content of the environment template.                          *)

\* the lines of the template that are neither blank nor its title comment
EntryLines(content) ==
    SelectSeq(content.lines,
              LAMBDA l : l # "" /\ l # "# NextAuth Configuration")

\* the header and the KEY=placeholder lines of each provider of the registry
ExpectedEnvBlock ==
    [google |-> << "# Google OAuth",
                   "AUTH_GOOGLE_ID=your-google-client-id",
                   "AUTH_GOOGLE_SECRET=your-google-client-secret" >>,
     github |-> << "# GitHub OAuth",
                   "AUTH_GITHUB_ID=your-github-client-id",
                   "AUTH_GITHUB_SECRET=your-github-client-secret" >>,
     credentials |-> << >>]

RECURSIVE ExpectedEnvBlocks(_)
ExpectedEnvBlocks(ids) ==
    IF ids = << >> THEN << >>
    ELSE ExpectedEnvBlock[Head(ids)] \o ExpectedEnvBlocks(Tail(ids))

\* C16: the entries of the environment template are the shared secret line
\* and then, for each selected provider in selection order that declares
\* N > 0 variables, one header naming it and its N KEY=placeholder lines in
\* declaration order; the credential provider adds no line.
C16_EnvTemplateContent ==
    call.fn = "generateEnvExample" /\ RegistrySelection(call.ids) =>
        /\ ~call.threw
        /\ EntryLines(call.value)
             = << "AUTH_SECRET=your-secret-key-here" >>
               \o ExpectedEnvBlocks(call.ids)
        /\ Len(EntryLines(call.value))
             = 1 + 3 * Cardinality({i \in 1..Len(call.ids) :
                                       call.ids[i] # "credentials"})

\* github, the credential provider, then google: two blocks, github's first
C16_Witness ==
    /\ call.fn = "generateEnvExample"
    /\ call.ids = << "github", "credentials", "google" >>
    /\ Len(EntryLines(call.value)) = 7
    /\ EntryLines(call.value)[2] = "# GitHub OAuth"
    /\ EntryLines(call.value)[5] = "# Google OAuth"

---------------------------------------------------------------------------
(* C17.  The content of the auth configuration.                            *)

ExpectedImport ==
    [google |-> "import Google from \"next-auth/providers/google\"",
     github |-> "import GitHub from \"next-auth/providers/github\"",
     credentials |->
        "import Credentials from \"next-auth/providers/credentials\""]

\* the fragments, indented as the template has them
ExpectedFragment ==
    [google |-> "    " \o PROVIDERS.google.configSnippet,
     github |-> "    " \o PROVIDERS.github.configSnippet,
     credentials |-> "    " \o PROVIDERS.credentials.configSnippet]

\* the entries of table for ids, in order, with sep between neighbours
RECURSIVE Block(_, _, _)
Block(ids, table, sep) ==
    IF ids = << >> THEN ""
    ELSE IF Len(ids) = 1 THEN table[ids[1]]
    ELSE Block(SubSeq(ids, 1, Len(ids) - 1), table, sep)
         \o sep \o table[ids[Len(ids)]]

\* C17: the import block of the auth configuration is one import line per
\* selected provider, in selection order, and the provider list is one
\* configuration fragment per selected provider, in selection order, with a
\* comma between neighbours.
C17_AuthConfigContent ==
    call.fn = "generateAuthConfig" /\ RegistrySelection(call.ids) =>
        /\ call.value.importLines = Block(call.ids, ExpectedImport, "\n")
        /\ call.value.providerEntries
             = Block(call.ids, ExpectedFragment, ",\n")

\* github then google: two import lines and two fragments, github's first
C17_Witness ==
    /\ call.fn = "generateAuthConfig"
    /\ call.ids = << "github", "google" >>
    /\ call.value.importLines
         = "import GitHub from \"next-auth/providers/github\"\n"
           \o "import Google from \"next-auth/providers/google\""
    /\ call.value.providerEntries
         = "    GitHub({...}),\n    Google({...})"

---------------------------------------------------------------------------
(* C18.  A run on a fresh root.                                            *)

\* the loop is about to run for [google] on a root with src/app where no
\* target file exists and no write will be rejected
FreshRoot ==
    /\ pc = "generating"
    /\ providerIds = << "google" >>
    /\ structure.hasSrcDir /\ structure.hasAppDir
    /\ isNextProject(files, dirs, Cwd)
    /\ unwritable = {}
    /\ \A l \in Labels : ~ExistsSync(files, dirs, Target(l))

\* the KEY=value lines of an environment template
VariableLines(content) ==
    SelectSeq(content.lines, LAMBDA l : l \notin {"", "# NextAuth Configuration",
                                                  "# Google OAuth",
                                                  "# GitHub OAuth"})

\* C18: on a fresh root with src/app the run for [google] reports 7
\* created, 0 skipped and 0 error; the environment template holds the
\* shared secret and the 2 Google variables and no other variable; the
\* import block of the auth configuration is the one import line of Google.
C18_FreshRootRun ==
    [][FreshRoot /\ GenerateStep =>
        /\ Len(results') = 7
        /\ CountStatus(results', "created") = 7
        /\ CountStatus(results', "skipped") = 0
        /\ CountStatus(results', "error") = 0
        /\ \A l \in Labels : ContentAt(files', Target(l)) # Absent
        /\ VariableLines(ContentAt(files', Target("Env example")))
             = << "AUTH_SECRET=your-secret-key-here",
                  "AUTH_GOOGLE_ID=your-google-client-id",
                  "AUTH_GOOGLE_SECRET=your-google-client-secret" >>
        /\ ContentAt(files', Target("Auth config")).importLines
             = "import Google from \"next-auth/providers/google\""]_vars

\* such a run reached its summary with 7 created files under src
C18_Witness ==
    /\ pc = "done"
    /\ exitCode = 0
    /\ providerIds = << "google" >>
    /\ structure.hasSrcDir
    /\ unwritable = {}
    /\ CountStatus(results, "created") = 7
    /\ ContentAt(files, Join(Cwd, <<"src", "auth.ts">>))
         = AuthConfigContent(<< PROVIDERS.google >>)

---------------------------------------------------------------------------
(* C19.  Package-manager detection.                                        *)

ManagerOfSentinel ==
    << "bun", "bun", "pnpm", "yarn", "npm" >>

\* the sentinels present in directory d, as indexes of Sentinels
SentinelsIn(d) ==
    {i \in 1..Len(Sentinels) : Join(d, <<Sentinels[i]>>) \in DOMAIN files}

\* the directories of the chain from the start directory up to the
\* filesystem root that hold a sentinel
LockDirs == {d \in Ancestors(Cwd) : SentinelsIn(d) # {}}

\* the one nearest to the start directory
NearestLockDir == CHOOSE d \in LockDirs : \A e \in LockDirs : Len(e) <= Len(d)

\* the manager of the sentinel of highest priority in directory d
ManagerIn(d) ==
    ManagerOfSentinel[CHOOSE i \in SentinelsIn(d) :
                         \A j \in SentinelsIn(d) : i <= j]

\* C19: getPackageManager returns the manager of the sentinel of highest
\* priority (bun > pnpm > yarn > npm) in the nearest directory, from the
\* start directory up to the filesystem root, that holds a sentinel, and
\* npm when no directory of the chain holds one.
C19_NearestSentinelWins ==
    call.fn = "getPackageManager" =>
        call.value = (IF LockDirs = {} THEN "npm"
                      ELSE ManagerIn(NearestLockDir))

---------------------------------------------------------------------------
(* C20.  The eligibility predicate.                                        *)

\* a manifest file exists at the root, parses, and has next among its
\* dependencies or its devDependencies
DeclaresNext ==
    /\ PackageJsonPath(Cwd) \in DOMAIN files
    /\ files[PackageJsonPath(Cwd)].wellFormed
    /\ "next" \in (files[PackageJsonPath(Cwd)].dependencies
                   \cup files[PackageJsonPath(Cwd)].devDependencies)

\* C20: isNextProject never throws; it is true exactly when a manifest file
\* exists at the root and declares next in dependencies or devDependencies,
\* and so false when the manifest is missing or malformed.
C20_EligibilityPredicate ==
    call.fn = "isNextProject" =>
        /\ ~call.threw
        /\ call.value \in BOOLEAN
        /\ call.value <=> DeclaresNext

\* next declared in devDependencies alone makes the root eligible
C20_Witness ==
    /\ call.fn = "isNextProject"
    /\ PackageJsonPath(Cwd) \in DOMAIN files
    /\ "next" \notin files[PackageJsonPath(Cwd)].dependencies
    /\ "next" \in files[PackageJsonPath(Cwd)].devDependencies
    /\ call.value = TRUE

---------------------------------------------------------------------------
(* C21.  Exit codes.                                                       *)

FatalError == stderr = << "Fatal error: TypeError" >>

\* C21: a run that ends at a gate (not a Next.js project, no app directory,
\* an unknown provider id) exits with a non-zero code, and so does a run
\* ended by an uncaught error; every other run that gets past the gates
\* ends with code 0, whatever the statuses of its artifacts, and a run for
\* providers of the registry meets no uncaught error.
C21_ExitCodes ==
    /\ pc = "exited" => exitCode # 0 /\ exitCode # -1
    /\ pc = "done" /\ FatalError => exitCode # 0 /\ exitCode # -1
    /\ pc = "done" /\ ~FatalError => exitCode = 0
    /\ pc = "done" /\ RegistrySelection(providerIds) => ~FatalError

\* a second run that skipped all 7 artifacts ended with code 0
C21_Witness ==
    /\ pc = "done"
    /\ RanTwice
    /\ CountStatus(results, "skipped") = 7
    /\ exitCode = 0

---------------------------------------------------------------------------
(* C22.  The --providers flag of the command line.                         *)

\* main has run with --providers and a value, and neither -h nor -v
ProvidersGiven ==
    /\ call.fn = "main"
    /\ hasProvidersValue(call.value.args)
    /\ ~call.value.args.help /\ ~call.value.args.version

\* the ids of the value that are not ids of the registry
OffendingIds ==
    SelectSeq(splitIds(call.value.args), LAMBDA id : id \notin RegistryIds)

\* C22, for a flag that has a value: the prompt is not entered; if an id of
\* the value is not a provider id the command prints the offending ids and
\* the valid set and exits non-zero without calling the orchestrator, so
\* nothing is written; otherwise the orchestrator runs with the ids of the
\* value, in their order.
C22_ProvidersFlag ==
    ProvidersGiven =>
        /\ ~call.value.prompted
        /\ IF OffendingIds # << >>
           THEN /\ pc = "cli-exited"
                /\ exitCode # 0 /\ exitCode # -1
                /\ stderr = << "Unknown providers: "
                                 \o JoinStr(OffendingIds, ", "),
                               "Available: google, github, credentials" >>
                /\ results = << >>
           ELSE /\ pc # "cli-exited"
                /\ call.value.selectedProviderIds = splitIds(call.value.args)
                /\ pc # "main" => providerIds = splitIds(call.value.args)

---------------------------------------------------------------------------
(* C23.  The order of the generators has no effect.                        *)

\* C23: the 7 target paths are pairwise distinct, and when the 7 generators
\* have run in any order the files and the status of each artifact are
\* those the loop gives in the order of the array.
C23_OrderIndependence ==
    /\ pc \in {"generating", "permuting", "permuted"} =>
          \A l, m \in Labels : l # m => Target(l) # Target(m)
    /\ pc = "permuted" =>
          /\ files = prevFiles
          /\ \A i \in 1..Len(Generators) :
                results[i].status = prevResults[i].status

\* the generators have run in some order on a root where one artifact
\* existed, for a selection that makes the env example fail
C23_Witness ==
    /\ pc = "permuted"
    /\ CountStatus(results, "skipped") = 1
    /\ CountStatus(results, "error") = 1
    /\ CountStatus(results, "created") = 5
    /\ files = prevFiles

---------------------------------------------------------------------------
(* C24.  One result per artifact.                                          *)

\* the result carries an error text
HasErrorText(r) == "error" \in DOMAIN r

\* C24: a run that got through the loop has collected 7 results, one per
\* artifact in the order of the array; created + skipped + error = 7; and
\* a result carries an error text exactly when its status is error.
C24_ResultAccounting ==
    Generated =>
       /\ Len(results) = 7
       /\ \A i \in 1..7 : results[i].label = Generators[i]
       /\ \A i \in 1..7 : results[i].status \in {"created", "skipped", "error"}
       /\ CountStatus(results, "created") + CountStatus(results, "skipped")
             + CountStatus(results, "error") = 7
       /\ \A i \in 1..7 : HasErrorText(results[i]) <=> results[i].status = "error"

\* the summary of a run with artifacts of each status
C24_Witness ==
    /\ pc = "done"
    /\ Len(results) = 7
    /\ CountStatus(results, "created") = 5
    /\ CountStatus(results, "skipped") = 1
    /\ CountStatus(results, "error") = 1
    /\ \E i \in 1..7 : HasErrorText(results[i])

---------------------------------------------------------------------------
(* C25.  The registry: redirect-based providers and credentials.           *)

\* the three properties the claim says go together, for one config
Partition(p) ==
    /\ (p.callbackPath # Null) <=> (p.envVars # << >>)
    /\ (p.envVars # << >>) <=> (p.id # "credentials")

\* C25: every entry of the registry is stored under its id, and it has a
\* callback path exactly when it declares environment variables, exactly
\* when it is not credentials; so for the configs getAllProviders and
\* getProviderConfigs return for registry ids.
C25_RegistryPartition ==
    /\ \A k \in DOMAIN PROVIDERS : PROVIDERS[k].id = k /\ Partition(PROVIDERS[k])
    /\ call.fn = "getAllProviders" =>
          /\ {call.value[i].id : i \in 1..Len(call.value)} = DOMAIN PROVIDERS
          /\ \A i \in 1..Len(call.value) : Partition(call.value[i])
    /\ (call.fn = "getProviderConfigs" /\ RegistrySelection(call.ids)) =>
          /\ ~call.threw
          /\ \A i \in 1..Len(call.ids) :
                /\ call.value[i].id = call.ids[i]
                /\ Partition(call.value[i])

\* the registry has been listed: google and github with a callback path
\* and variables, credentials with neither
C25_Witness ==
    /\ call.fn = "getAllProviders"
    /\ Len(call.value) = 3
    /\ \A i \in {1, 2} : call.value[i].callbackPath # Null
                         /\ Len(call.value[i].envVars) = 2
    /\ call.value[3].id = "credentials"
    /\ call.value[3].callbackPath = Null
    /\ call.value[3].envVars = << >>

---------------------------------------------------------------------------
(* C26.  A file that appears between the check and the write.              *)

\* both runs have been through their loops
BothRan == \A a \in Actors : runs[a].at = "summary"

\* the runs that report the i-th artifact created
CreatedBy(i) == {a \in Actors : runs[a].results[i].status = "created"}

\* C26: a file the user creates where a run has found none and is about to
\* write keeps its content; and when two runs at once are through, each
\* artifact is reported created by at most one of them and holds what that
\* run rendered.
C26_NoClobberUnderInterleaving ==
    /\ \A p \in userFiles : ContentAt(files, p) = UserContent
    /\ BothRan =>
          \A i \in 1..Len(Generators) :
             /\ Cardinality(CreatedBy(i)) <= 1
             /\ \A a \in CreatedBy(i) :
                   ContentAt(files, TargetPath(Generators[i], runs[a].structure,
                                               Cwd, processCwd))
                      = Render(Generators[i], runs[a].providers)

---------------------------------------------------------------------------
(* C27.  Every run ends.                                                   *)

\* the run has exited at a gate, or is through the summary with all 7
\* generators attempted; the call of getPackageManager has returned
Ended ==
    \/ pc = "exited" /\ exitCode = 1
    \/ pc = "done" /\ Len(results) = Len(Generators)
    \/ pc = "returned" /\ call.value.returned # ""

\* C27: every run that has begun ends, at a gate or after the summary with
\* the 7 generators attempted, and every call of getPackageManager returns;
\* each iteration of its loop that goes on moves to a strictly shorter path
\* and what it returns is the manager of the nearest lock file, npm if none.
C27_Termination ==
    /\ (pc # "idle") ~> Ended
    /\ [][pc = "walking" /\ pc' = "walking" =>
             Len(call'.value.dir) < Len(call.value.dir)]_vars
    /\ [](pc = "returned" =>
             call.value.returned
                = getPackageManager(files, dirs, call.value.start))

\* the walk from the directory below the root has gone up to the
\* filesystem root and returned npm
C27_Witness ==
    /\ pc = "returned"
    /\ call.value.start = Join(Cwd, <<"packages">>)
    /\ call.value.dir = << >>
    /\ call.value.returned = "npm"

=============================================================================
